---- MODULE Spec2Model ----
(***************************************************************************)
(* Model of src/minigrid.py: the Grid container and the MiniGridEnv action *)
(* interpreter (step) and rejection-sampling placement (place_obj,         *)
(* place_agent).                                                           *)
(*                                                                         *)
(* The model follows the text of the source statement by statement.  A     *)
(* statement that cannot be evaluated (a name or attribute that does not   *)
(* exist, a failed assert, line 150 which is no Python expression) ends    *)
(* the call by raising at that line; what the call assigned before that    *)
(* line stays assigned.  The variable `raised` records the line.           *)
(* Asserts are enabled (Python without -O).                                *)
(*                                                                         *)
(* The model starts from an environment on which reset has assigned its    *)
(* fields (lines 439-459), with `self.actions` the Actions enum of lines   *)
(* 356-374 and the grid built by _gen_grid, which subclasses supply,       *)
(* through put_obj.                                                        *)
(***************************************************************************)
EXTENDS Integers, Sequences, FiniteSets, TLC

\* ------------------------------------------------------------------ bounds
\* step_count is unbounded in the code; step is explored up to this count
MaxCount == 3
\* number of objects _gen_grid has put on the grid when the episode starts
MaxObjs == 2
\* largest attempt budget (max_tries) a caller of place_obj passes, from 1
MaxTries == 2

\* ----------------------------------------------------- configuration
\* MiniGridEnv.__init__(width, height, max_steps): the smallest grid that
\* Grid.__init__ accepts
width == 3
height == 3
\* the values of max_steps the model is constructed with
MaxStepsChoices == {2, 10}

None == "None"

\* ----------------------------------------------------- world objects
\* The typed-object library (WorldObj, Wall, Key, ...) is not part of the
\* source file; one object of each of four types, with the capabilities
\* the specification gives them.
Objs == {"wall", "key", "goal", "lava"}

obj_type(o) == o

can_overlap(o) == o \in {"goal", "lava"}

can_pickup(o) == o \in {"key"}

\* WorldObj.encode: (type index, colour index, state); the objects have the
\* colours grey, blue, green and red of COLOR_TO_IDX and state 0
obj_encode(o) ==
    IF o = "wall" THEN <<2, 5, 0>>
    ELSE IF o = "key" THEN <<5, 2, 0>>
    ELSE IF o = "goal" THEN <<8, 1, 0>>
    ELSE <<9, 0, 0>>

\* ----------------------------------------------------------- Grid
Cells == 0 .. (width * height - 1)

Pos == (0 .. (width - 1)) \X (0 .. (height - 1))

\* the asserts of Grid.get and Grid.set
InBounds(i, j) == i >= 0 /\ i < width /\ j >= 0 /\ j < height

\* Grid.get: self.grid[j * self.width + i]
get(g, i, j) == g[j * width + i]

\* Grid.set: self.grid[j * self.width + 1] = v
set(g, i, j, v) == [g EXCEPT ![j * width + 1] = v]

\* OBJECT_TO_IDX, lines 38-50
OBJECT_TO_IDX ==
    [ unseen |-> 0, empty |-> 1, wall |-> 2, floor |-> 3, door |-> 4, key |-> 5,
      ball |-> 6, box |-> 7, goal |-> 8, lava |-> 9, agent |-> 10 ]

\* Grid.encode() without a mask, lines 260-283: one triple per cell
encode(g) ==
    [ c \in Cells |-> IF g[c] = None THEN << OBJECT_TO_IDX["empty"], 0, 0 >>
                                      ELSE obj_encode(g[c]) ]

\* Grid.__eq__, lines 106-109
GridEq(g1, g2) == encode(g1) = encode(g2)

\* ----------------------------------------------------------- agent
DIR_TO_VEC == << <<1, 0>>, <<0, 1>>, <<-1, 0>>, <<0, -1>> >>

dir_vec(d) == DIR_TO_VEC[d + 1]

front_pos(p, d) == << p[1] + dir_vec(d)[1], p[2] + dir_vec(d)[2] >>

\* Actions enum, plus one value outside it
left == 0
right == 1
forward == 2
pickup == 3
drop == 4
toggle == 5
done_action == 6
up == 7
down == 8
ActionInputs == 0 .. 9
\* no call of step yet
NoAction == 0 - 1
NoPos == << 0 - 1, 0 - 1 >>

VARIABLES grid, agent_pos, agent_dir, carrying, step_count, max_steps,
          action, fwd_pos, fwd_cell, reward, done, raised, place, gcall

vars == << grid, agent_pos, agent_dir, carrying, step_count, max_steps,
           action, fwd_pos, fwd_cell, reward, done, raised, place, gcall >>

\* ------------------------------------------------------------- reset
\* MiniGridEnv.put_obj: self.grid.set(i, j, obj)
put_obj(g, o, i, j) == set(g, i, j, o)

\* Grid.__init__: [None] * width * height
EmptyGrid == [c \in Cells |-> None]

\* what _gen_grid can leave: the empty grid after up to MaxObjs calls of
\* put_obj, each with an object of its own at an in-bounds position
RECURSIVE GenGrids(_)
GenGrids(n) ==
    IF n = 0 THEN {EmptyGrid}
    ELSE LET G == GenGrids(n - 1)
         IN  G \cup { put_obj(g, o, p[1], p[2]) :
                        g \in G, o \in Objs, p \in Pos }

\* the objects for which `obj in grid` holds (Grid.__contains__)
ObjsIn(g) == { g[c] : c \in Cells } \ {None}

\* the objects held by the grid or carried
Held(g, ca) == ObjsIn(g) \cup ({ca} \ {None})

\* every object of the grid is in one cell only
OneCellEach(g) == \A c1, c2 \in Cells : (g[c1] # None /\ g[c1] = g[c2]) => c1 = c2

\* reward is a fraction <<numerator, denominator>>
Zero == <<0, 1>>

\* no call of place_obj yet: the frame of place_obj with its defaults
NoPlace ==
    [ pc |-> "idle", caller |-> "none", obj |-> None, top |-> <<0, 0>>,
      size |-> <<width, height>>, reject |-> {}, rand_dir |-> FALSE,
      max_tries |-> 0, num_tries |-> 0, pos |-> NoPos ]

\* a Grid object: width, height and the flat list grid, indexed from 0
NoGrid == [ width |-> 0, height |-> 0, grid |-> [c \in {} |-> None] ]

\* no call of a Grid method yet.  A call records its operation, the grid it
\* was called on (G), its arguments (i, j, v, the mask M as the set of its
\* True cells), the grid and mask it returned (out, mask), the line that
\* raised and the number of calls made in a row (n)
NoCall ==
    [ op |-> "none", G |-> NoGrid, i |-> 0, j |-> 0, v |-> None, M |-> {},
      w |-> 0, h |-> 0, d |-> 0, out |-> NoGrid, mask |-> {}, raised |-> None, n |-> 0 ]

\* reset, lines 439-459: _gen_grid defines grid, agent_pos and agent_dir,
\* the start cell is empty or can be overlapped, nothing is carried and
\* step_count is 0
Init ==
    /\ grid \in { g \in GenGrids(MaxObjs) : OneCellEach(g) }
    /\ agent_pos \in Pos
    /\ LET start_cell == get(grid, agent_pos[1], agent_pos[2])
       IN  start_cell = None \/ can_overlap(start_cell)
    /\ agent_dir \in 0 .. 3
    /\ carrying = None
    /\ step_count = 0
    /\ max_steps \in MaxStepsChoices
    /\ action = NoAction
    /\ fwd_pos = NoPos
    /\ fwd_cell = None
    /\ reward = Zero
    /\ done = FALSE
    /\ raised = None
    /\ place = NoPlace
    /\ gcall = NoCall

\* -------------------------------------------------------------- step
\* _reward: 1 - 0.9 * (step_count / max_steps), as a fraction
_reward(sc, ms) == << 10 * ms - 9 * sc, 10 * ms >>

\* the line at which Grid.get(i, j) raises, None when it returns
get_raises(i, j) ==
    IF ~(i >= 0 /\ i < width) THEN "L124"
    ELSE IF ~(j >= 0 /\ j < height) THEN "L125"
    ELSE None

\* the chain with every condition reading `self.actions` and the enum's names
branch_actions(a) ==
    IF a = left THEN "left"
    ELSE IF a = right THEN "right"
    ELSE IF a = forward THEN "forward"
    ELSE IF a = pickup THEN "pickup"
    ELSE IF a = drop THEN "drop"
    ELSE IF a \in {toggle, up, down, done_action} THEN "pass"
    ELSE "L900"

\* The if/elif chain of step, lines 847-900: the branch the action takes,
\* or the line that raises.  The conditions are evaluated in order; the
\* fourth, `action == self.action.pickpup`, reads the attribute `action`,
\* which the environment does not have (it has `actions`), so every
\* action that is not left, right or forward raises AttributeError there.
branch(a) ==
    IF a = left THEN "left"
    ELSE IF a = right THEN "right"
    ELSE IF a = forward THEN "forward"
    ELSE "L867"

\* lines 847-854
turn(br, d) ==
    IF br = "left" THEN (IF d - 1 < 0 THEN d - 1 + 4 ELSE d - 1)
    ELSE IF br = "right" THEN (d + 1) % 4
    ELSE d

\* forward without the can_overlap test
move_always(br, p, fp, fc) ==
    IF br = "forward" THEN fp ELSE p

\* forward testing can_pickup in place of can_overlap
move_can_pickup(br, p, fp, fc) ==
    IF br = "forward" /\ (fc = None \/ can_pickup(fc)) THEN fp ELSE p

\* lines 858-859
move(br, p, fp, fc) ==
    IF br = "forward" /\ (fc = None \/ can_overlap(fc)) THEN fp ELSE p

\* lines 860-864: done after the forward branch
forward_done(br, fc) ==
    br = "forward" /\ fc # None /\ obj_type(fc) \in {"goal", "lava"}

\* lines 860-862: reward after the forward branch
forward_reward(br, fc, sc, ms) ==
    IF br = "forward" /\ fc # None /\ obj_type(fc) = "goal" THEN _reward(sc, ms)
    ELSE Zero

\* lines 868-872 (pickup) and 876-879 (drop): carrying after the branch
carry(br, fc, ca) ==
    IF br = "pickup" /\ fc # None /\ can_pickup(fc) /\ ca = None THEN fc
    ELSE IF br = "drop" /\ fc = None /\ ca # None THEN None
    ELSE ca

\* lines 868-872 (pickup) and 876-879 (drop): the grid after the branch
regrid(br, g, fp, fc, ca) ==
    IF br = "pickup" /\ fc # None /\ can_pickup(fc) /\ ca = None
        THEN set(g, fp[1], fp[2], None)
    ELSE IF br = "drop" /\ fc = None /\ ca # None
        THEN set(g, fp[1], fp[2], ca)
    ELSE g

\* get_view_exts, lines 771-787: the line that raises, None when it returns
\* (`self.agent_Pos` at 777, `slef` at 785)
get_view_exts_raises(d) ==
    IF d = 1 THEN "L777"
    ELSE IF d = 3 THEN "L785"
    ELSE None

\* gen_obs -> gen_obs_grid, lines 917-922: get_view_exts, then Grid.slice,
\* whose line 150 `range(0. width)` is not an expression Python evaluates.
\* (Were slice to return, `grid.rotate.left()` at 922 raises next: a Grid
\* has no attribute `rotate`, and the loop runs at least once.)
gen_obs_raises(d) ==
    IF get_view_exts_raises(d) # None THEN get_view_exts_raises(d)
    ELSE "L150"

\* MiniGridEnv.step(a), lines 831-907.  reward and done are the values of
\* step's locals when the call ended; raised is the line that ended it by
\* raising, None when it ended at the return of line 907.
step(a) ==
    /\ step_count < MaxCount
    /\ LET fp == front_pos(agent_pos, agent_dir)
           gr == get_raises(fp[1], fp[2])
           fc == IF gr = None THEN get(grid, fp[1], fp[2]) ELSE None
           br == IF gr = None THEN branch(a) ELSE gr
           ran == br \in {"left", "right", "forward", "pickup", "drop", "pass"}
           sc == step_count + 1
           d == turn(br, agent_dir)
       IN  /\ step_count' = sc
           /\ action' = a
           /\ fwd_pos' = fp
           /\ fwd_cell' = fc
           /\ agent_dir' = d
           /\ agent_pos' = move(br, agent_pos, fp, fc)
           /\ carrying' = carry(br, fc, carrying)
           /\ grid' = regrid(br, grid, fp, fc, carrying)
           /\ reward' = forward_reward(br, fc, sc, max_steps)
           /\ done' = (forward_done(br, fc) \/ (ran /\ sc >= max_steps))
           /\ raised' = IF ran THEN gen_obs_raises(d) ELSE br
           /\ UNCHANGED << max_steps, place, gcall >>

Next == \E a \in ActionInputs : step(a)

Spec == Init /\ [][Next]_vars

\* --------------------------------------------------------- placement
\* agent_dir before _gen_grid has set it (None, line 440)
NoDir == 0 - 1

Max(a, b) == IF a > b THEN a ELSE b
Min(a, b) == IF a < b THEN a ELSE b

\* the arguments the calls are explored with
Tops == { <<0, 0>>, <<1, 1>>, <<0 - 1, 2>> }
Sizes == { <<1, 1>>, <<width, height>> }
Rejects == { {}, { p \in Pos : p[2] = 1 } }

\* while _gen_grid runs: some objects are on the grid, the agent is not
\* placed yet or has been placed, nothing is carried
InitPlace ==
    /\ grid \in { g \in GenGrids(MaxObjs) : OneCellEach(g) }
    /\ \/ agent_pos = NoPos /\ agent_dir = NoDir
       \/ /\ agent_pos \in Pos
          /\ get(grid, agent_pos[1], agent_pos[2]) = None
          /\ agent_dir = 0
    /\ carrying = None
    /\ step_count = 0
    /\ max_steps \in MaxStepsChoices
    /\ action = NoAction
    /\ fwd_pos = NoPos
    /\ fwd_cell = None
    /\ reward = Zero
    /\ done = FALSE
    /\ raised = None
    /\ place = NoPlace
    /\ gcall = NoCall

\* place_obj(obj, top, size, reject_fn, max_tries), lines 636-644
call_place_obj(o, top, size, rej, mt) ==
    /\ place.pc = "idle"
    /\ o \notin Held(grid, carrying)
    /\ place' = [ pc |-> "loop", caller |-> "place_obj", obj |-> o,
                  top |-> << Max(top[1], 0), Max(top[2], 0) >>,
                  size |-> size, reject |-> rej, rand_dir |-> FALSE,
                  max_tries |-> mt, num_tries |-> 0, pos |-> NoPos ]
    /\ UNCHANGED << grid, agent_pos, agent_dir, carrying, step_count, max_steps,
                    action, fwd_pos, fwd_cell, reward, done, raised, gcall >>

\* place_agent(top, size, rand_dir, max_tries), lines 701-702, entering
\* place_obj(None, top, size, max_tries=max_tries)
call_place_agent(top, size, rd, mt) ==
    /\ place.pc = "idle"
    /\ agent_pos' = NoPos
    /\ place' = [ pc |-> "loop", caller |-> "place_agent", obj |-> None,
                  top |-> << Max(top[1], 0), Max(top[2], 0) >>,
                  size |-> size, reject |-> {}, rand_dir |-> rd,
                  max_tries |-> mt, num_tries |-> 0, pos |-> NoPos ]
    /\ UNCHANGED << grid, agent_dir, carrying, step_count, max_steps,
                    action, fwd_pos, fwd_cell, reward, done, raised, gcall >>

\* line 649: the test that ends the loop with RecursionError
exhausted(nt, mt) == nt > mt

\* lines 660-669: the sampled position is not taken
rejected(g, ap, rej, x, y) ==
    \/ get(g, x, y) # None
    \/ <<x, y>> = ap
    \/ <<x, y>> \in rej

\* one turn of the loop of place_obj, lines 646-671, and on break the rest of
\* place_obj, lines 673-679, and of place_agent, lines 703-708
place_loop ==
    /\ place.pc = "loop"
    /\ IF exhausted(place.num_tries, place.max_tries)
       THEN /\ place' = [place EXCEPT !.pc = "RecursionError"]
            /\ UNCHANGED << grid, agent_pos, agent_dir >>
       ELSE \E x \in place.top[1] .. (Min(place.top[1] + place.size[1], width) - 1),
               y \in place.top[2] .. (Min(place.top[2] + place.size[2], height) - 1) :
              IF rejected(grid, agent_pos, place.reject, x, y)
              THEN /\ place' = [place EXCEPT !.num_tries = @ + 1]
                   /\ UNCHANGED << grid, agent_pos, agent_dir >>
              ELSE /\ place' = [place EXCEPT !.num_tries = @ + 1,
                                             !.pc = "returned", !.pos = <<x, y>>]
                   /\ grid' = set(grid, x, y, place.obj)
                   /\ IF place.caller = "place_agent"
                      THEN /\ agent_pos' = <<x, y>>
                           /\ IF place.rand_dir
                              THEN agent_dir' \in 0 .. 3
                              ELSE agent_dir' = agent_dir
                      ELSE UNCHANGED << agent_pos, agent_dir >>
    /\ UNCHANGED << carrying, step_count, max_steps,
                    action, fwd_pos, fwd_cell, reward, done, raised, gcall >>

NextPlace ==
    \/ \E o \in Objs, top \in Tops, size \in Sizes, rej \in Rejects, mt \in 1 .. MaxTries :
          call_place_obj(o, top, size, rej, mt)
    \/ \E top \in Tops, size \in Sizes, rd \in BOOLEAN, mt \in 1 .. MaxTries :
          call_place_agent(top, size, rd, mt)
    \/ place_loop

SpecPlace == InitPlace /\ [][NextPlace]_vars

\* ------------------------------------------------------ Grid methods
\* largest number of occupied cells of the grids the methods are called on
MaxFilled == 2
\* largest number of False cells of the masks handed to encode
MaxHidden == 2
\* largest number of occupied cells of the grids process_vis is called on
MaxViewFilled == 3

\* the sizes (width, height) of the grids the methods are called on, from
\* the smallest Grid.__init__ accepts
Dims == { <<3, 3>>, <<4, 3>>, <<3, 4>> }

\* the occupants: an opaque and a see-through object
GridVals == {"wall", "key"}

\* Grid.__init__, lines 82-89; the line of the assert that fails
Grid_raises(w, h) == IF ~(w >= 3) THEN "L83" ELSE IF ~(h >= 3) THEN "L84" ELSE None

Grid_new(w, h) == [ width |-> w, height |-> h, grid |-> [c \in 0 .. (w * h - 1) |-> None] ]

\* the cells (i, j) of a grid
CellsOf(G) == (0 .. (G.width - 1)) \X (0 .. (G.height - 1))

\* Grid.get, lines 123-126
Grid_get_raises(G, i, j) ==
    IF ~(i >= 0 /\ i < G.width) THEN "L124"
    ELSE IF ~(j >= 0 /\ j < G.height) THEN "L125"
    ELSE None

Grid_get(G, i, j) == G.grid[j * G.width + i]

\* Grid.set, lines 118-121: the write goes to index j * width + 1
Grid_set_raises(G, i, j) ==
    IF ~(i >= 0 /\ i < G.width) THEN "L119"
    ELSE IF ~(j >= 0 /\ j < G.height) THEN "L120"
    ELSE None

Grid_set(G, i, j, v) == [G EXCEPT !.grid[j * G.width + 1] = v]

\* the w x h grids with at most n occupied cells
GridsOf(w, h, n) ==
    LET C == 0 .. (w * h - 1)
    IN  UNION { { [ width |-> w, height |-> h,
                    grid |-> [c \in C |-> IF c \in S THEN f[c] ELSE None] ] :
                  f \in [S -> GridVals] } :
                S \in { T \in SUBSET C : Cardinality(T) <= n } }

Grids(n) == UNION { GridsOf(d[1], d[2], n) : d \in Dims }

\* Grid.encode(vis_mask), lines 260-283: the array of shape (width, height,
\* 3), zeros (the unseen index) where the mask is False; M is the set of the
\* True cells of vis_mask, every cell when vis_mask is None
Grid_encode(G, M) ==
    [ width |-> G.width, height |-> G.height,
      a |-> [ p \in CellsOf(G) |->
                IF p \in M
                THEN IF Grid_get(G, p[1], p[2]) = None
                     THEN << OBJECT_TO_IDX["empty"], 0, 0 >>
                     ELSE obj_encode(Grid_get(G, p[1], p[2]))
                ELSE <<0, 0, 0>> ] ]

\* Grid.__eq__, lines 106-109: np.array_equal of the two encodings
Grid_eq(G1, G2) == Grid_encode(G1, CellsOf(G1)) = Grid_encode(G2, CellsOf(G2))

\* Grid.rotate_left, lines 135-138: the loop from its k-th turn on, turn k
\* being i = k div height, j = k mod height; every turn writes
\* grid.set(j, grid.height - 1 - 1, v)
RECURSIVE rotate_loop(_, _, _)
rotate_loop(G, out, k) ==
    IF k = G.width * G.height THEN out
    ELSE LET i == k \div G.height
             j == k % G.height
             v == Grid_get(G, i, j)
         IN  rotate_loop(G, Grid_set(out, j, out.height - 1 - 1, v), k + 1)

\* Grid.rotate_left, lines 128-140
rotate_left(G) == rotate_loop(G, Grid_new(G.height, G.width), 0)

\* WorldObj.decode(type_idx, color_idx, state): None for the empty and the
\* unseen index, else the object of that type
obj_decode(t) ==
    IF t[1] = OBJECT_TO_IDX["wall"] THEN "wall"
    ELSE IF t[1] = OBJECT_TO_IDX["key"] THEN "key"
    ELSE IF t[1] = OBJECT_TO_IDX["goal"] THEN "goal"
    ELSE IF t[1] = OBJECT_TO_IDX["lava"] THEN "lava"
    ELSE None

\* Grid.decode, lines 297-302: the loop from its k-th turn on, turn k being
\* i = k div height, j = k mod height (i is the outer index)
RECURSIVE decode_loop(_, _, _)
decode_loop(A, out, k) ==
    IF k = A.width * A.height THEN out
    ELSE LET i == k \div A.height
             j == k % A.height
             v == obj_decode(A.a[<< i, j >>])
         IN  decode_loop(A, Grid_set(out, i, j, v), k + 1)

\* Grid.decode, lines 285-304: the grid it returns
decode_grid(A) == decode_loop(A, Grid_new(A.width, A.height), 0)

\* Grid.decode, lines 294 and 302: the True cells of the vis_mask it returns
decode_mask(A) ==
    { p \in DOMAIN A.a : A.a[p][1] # OBJECT_TO_IDX["unseen"] }

\* the masks encode is called with: at most n cells False
MasksOf(G, n) ==
    { CellsOf(G) \ Hd : Hd \in { T \in SUBSET CellsOf(G) : Cardinality(T) <= n } }

\* Grid.slice, lines 147-162: the line that ends the call by raising.
\* Grid(width, height) asserts at 83-84; then the outer loop runs (height >=
\* 3) and its first turn reaches line 150, `for i in range(0. width)`, which
\* is no expression Python evaluates; lines 151-160 are never reached.
slice_raises(w, h) ==
    IF Grid_raises(w, h) # None THEN Grid_raises(w, h) ELSE "L150"

\* the values of topX and of topY slice is called with
Tops3 == (0 - 1) .. 1

\* MiniGridEnv.__init__(agent_view_size), lines 384 and 399-401: the
\* smallest view size the asserts accept (odd, at least 3)
agent_view_size == 3

\* right_vec, lines 720-727
right_vec(d) == << 0 - dir_vec(d)[2], dir_vec(d)[1] >>

\* get_view_coords(i, j), lines 737-762, for the agent at a facing d
get_view_coords(a, d, i, j) ==
    LET ax == a[1]
        ay == a[2]
        dx == dir_vec(d)[1]
        dy == dir_vec(d)[2]
        rx == right_vec(d)[1]
        ry == right_vec(d)[2]
        sz == agent_view_size
        hs == agent_view_size \div 2
        tx == ax + (dx * (sz - 1)) - (rx * hs)
        ty == ay + (dy * (sz - 1)) - (ry * hs)
        lx == i - tx
        ly == j - ty
        vx == rx * lx + ry * ly
        vy == 0 - (dx * lx + dy * ly)
    IN  << vx, vy >>

\* the grids the Grid methods are called on
GridInputs == Grids(MaxFilled)

\* before any call of a Grid method (max_steps at its default, line 381)
InitGrid ==
    /\ grid = EmptyGrid
    /\ agent_pos = NoPos
    /\ agent_dir = NoDir
    /\ carrying = None
    /\ step_count = 0
    /\ max_steps = 100
    /\ action = NoAction
    /\ fwd_pos = NoPos
    /\ fwd_cell = None
    /\ reward = Zero
    /\ done = FALSE
    /\ raised = None
    /\ place = NoPlace
    /\ gcall = NoCall

\* G.set(i, j, v)
call_set ==
    /\ gcall.op = "none"
    /\ \E G \in GridInputs, v \in GridVals \cup {None} :
          \E i \in (0 - 1) .. G.width, j \in 0 .. G.height :
             LET r == Grid_set_raises(G, i, j)
             IN  gcall' = [ NoCall EXCEPT !.op = "set", !.G = G, !.i = i, !.j = j, !.v = v,
                              !.out = IF r = None THEN Grid_set(G, i, j, v) ELSE G,
                              !.raised = r, !.n = 1 ]
    /\ UNCHANGED << grid, agent_pos, agent_dir, carrying, step_count, max_steps,
                    action, fwd_pos, fwd_cell, reward, done, raised, place >>

\* G.rotate_left()
call_rotate_left ==
    /\ gcall.op = "none"
    /\ \E G \in GridInputs :
          gcall' = [ NoCall EXCEPT !.op = "rotate_left", !.G = G,
                                   !.out = rotate_left(G), !.n = 1 ]
    /\ UNCHANGED << grid, agent_pos, agent_dir, carrying, step_count, max_steps,
                    action, fwd_pos, fwd_cell, reward, done, raised, place >>

\* rotate_left() of the grid the last rotate_left() returned, up to 4 in a row
again_rotate_left ==
    /\ gcall.op = "rotate_left"
    /\ gcall.n < 4
    /\ gcall' = [ gcall EXCEPT !.out = rotate_left(gcall.out), !.n = @ + 1 ]
    /\ UNCHANGED << grid, agent_pos, agent_dir, carrying, step_count, max_steps,
                    action, fwd_pos, fwd_cell, reward, done, raised, place >>

\* G.slice(topX, topY, w, h); out stays NoGrid when nothing is returned
call_slice ==
    /\ gcall.op = "none"
    /\ \E G \in GridInputs, topX \in Tops3, topY \in Tops3, d \in Dims :
          gcall' = [ NoCall EXCEPT !.op = "slice", !.G = G, !.i = topX, !.j = topY,
                                   !.w = d[1], !.h = d[2],
                                   !.raised = slice_raises(d[1], d[2]), !.n = 1 ]
    /\ UNCHANGED << grid, agent_pos, agent_dir, carrying, step_count, max_steps,
                    action, fwd_pos, fwd_cell, reward, done, raised, place >>

\* Grid.decode(G.encode(M))
call_decode ==
    /\ gcall.op = "none"
    /\ \E G \in GridInputs :
          \E M \in MasksOf(G, MaxHidden) :
             gcall' = [ NoCall EXCEPT !.op = "decode", !.G = G, !.M = M,
                                      !.out = decode_grid(Grid_encode(G, M)),
                                      !.mask = decode_mask(Grid_encode(G, M)),
                                      !.n = 1 ]
    /\ UNCHANGED << grid, agent_pos, agent_dir, carrying, step_count, max_steps,
                    action, fwd_pos, fwd_cell, reward, done, raised, place >>

\* gen_obs_grid() of an environment with grid G, the agent at a facing d;
\* out stays NoGrid when nothing is returned
call_gen_obs_grid ==
    /\ gcall.op = "none"
    /\ \E G \in GridInputs, d \in 0 .. 3 :
          \E a \in CellsOf(G) :
             gcall' = [ NoCall EXCEPT !.op = "gen_obs_grid", !.G = G,
                                      !.i = a[1], !.j = a[2], !.d = d,
                                      !.raised = gen_obs_raises(d), !.n = 1 ]
    /\ UNCHANGED << grid, agent_pos, agent_dir, carrying, step_count, max_steps,
                    action, fwd_pos, fwd_cell, reward, done, raised, place >>

NextGrid ==
    \/ call_set
    \/ call_gen_obs_grid
    \/ call_decode
    \/ call_slice
    \/ call_rotate_left
    \/ again_rotate_left

SpecGrid == InitGrid /\ [][NextGrid]_vars

\* ------------------------------------------------------ process_vis
\* WorldObj.see_behind: a wall blocks the view, the other objects do not
see_behind(o) == o # "wall"

\* process_vis, lines 316-318 and 329-331: `cell and not cell.see_behind()`
opaque(G, i, j) ==
    Grid_get(G, i, j) # None /\ ~see_behind(Grid_get(G, i, j))

\* process_vis, lines 313-323 (di = 1) and 326-336 (di = -1): one turn of an
\* inner loop at cell (i, j); mask is the set of the True cells
spread(mask, G, i, j, di) ==
    IF << i, j >> \notin mask THEN mask
    ELSE IF opaque(G, i, j) THEN mask
    ELSE mask \cup { << i + di, j >> }
              \cup (IF j > 0 THEN { << i + di, j - 1 >>, << i, j - 1 >> } ELSE {})

\* process_vis, lines 312-323: for i in range(0, grid.width-1), from turn i on
RECURSIVE sweep_right(_, _, _, _)
sweep_right(mask, G, j, i) ==
    IF i > G.width - 2 THEN mask
    ELSE sweep_right(spread(mask, G, i, j, 1), G, j, i + 1)

\* a sweep that marks nothing
sweep_none(mask, G, j, i) == mask

\* process_vis, lines 325-336: for i in reversed(range(1, grid.width)), from
\* turn i on
RECURSIVE sweep_left(_, _, _, _)
sweep_left(mask, G, j, i) ==
    IF i < 1 THEN mask
    ELSE sweep_left(spread(mask, G, i, j, 0 - 1), G, j, i - 1)

\* process_vis, lines 311-336: for j in reversed(range(0, grid.height)), from
\* row j on
RECURSIVE rows(_, _, _)
rows(mask, G, j) ==
    IF j < 0 THEN mask
    ELSE rows(sweep_left(sweep_right(mask, G, j, 0), G, j, G.width - 1), G, j - 1)

\* process_vis, lines 307-336 and 343: the mask it returns
vis_mask(G, pos) == rows({ pos }, G, G.height - 1)

\* process_vis, lines 338-341: the clearing loop from its k-th turn on, turn
\* k being j = k div width, i = k mod width
RECURSIVE clear_loop(_, _, _)
clear_loop(G, mask, k) ==
    IF k = G.width * G.height THEN G
    ELSE LET j == k \div G.width
             i == k % G.width
         IN  clear_loop(IF << i, j >> \notin mask THEN Grid_set(G, i, j, None) ELSE G,
                        mask, k + 1)

\* process_vis, lines 306-343: the grid it leaves
vis_grid(G, pos) == clear_loop(G, vis_mask(G, pos), 0)

\* gen_obs_grid, line 927: the origin handed to process_vis, the
\* bottom-centre cell of the view grid
origin(G) == << G.width \div 2, G.height - 1 >>

\* the view grids process_vis is called on
ViewInputs == Grids(MaxViewFilled)

\* G.process_vis(agent_pos = origin(G))
call_process_vis ==
    /\ gcall.op = "none"
    /\ \E G \in ViewInputs :
          gcall' = [ NoCall EXCEPT !.op = "process_vis", !.G = G,
                                   !.i = origin(G)[1], !.j = origin(G)[2],
                                   !.out = vis_grid(G, origin(G)),
                                   !.mask = vis_mask(G, origin(G)), !.n = 1 ]
    /\ UNCHANGED << grid, agent_pos, agent_dir, carrying, step_count, max_steps,
                    action, fwd_pos, fwd_cell, reward, done, raised, place >>

NextVis == call_process_vis

SpecVis == InitGrid /\ [][NextVis]_vars

\* ------------------------------------------------------------ claims
FracEq(a, b) == a[1] * b[2] = b[1] * a[2]

\* the forward cell exists and is empty or can be overlapped
FrontFree(g, p, d) ==
    LET fp == front_pos(p, d)
    IN  /\ InBounds(fp[1], fp[2])
        /\ LET c == get(g, fp[1], fp[2]) IN c = None \/ can_overlap(c)

\* C1: step(forward) moves the agent into the forward cell exactly when that
\* cell is empty or its occupant can be overlapped, otherwise the position
\* stays; facing, carrying and the grid are unchanged in both cases.
C1_ForwardMove ==
    [][ action' = forward =>
          /\ agent_pos' = IF FrontFree(grid, agent_pos, agent_dir)
                          THEN front_pos(agent_pos, agent_dir)
                          ELSE agent_pos
          /\ agent_dir' = agent_dir
          /\ carrying' = carrying
          /\ grid' = grid ]_vars

\* a forward step has moved the agent into an empty forward cell
C1_Witness ==
    /\ action = forward
    /\ fwd_cell = None
    /\ InBounds(fwd_pos[1], fwd_pos[2])
    /\ agent_pos = fwd_pos

\* C2: a forward step whose forward cell is a goal returns done = True and
\* reward = 1 - 0.9 * (step_count / max_steps), step_count being the value
\* after this step's increment.
C2_GoalReward ==
    (action = forward /\ fwd_cell # None /\ obj_type(fwd_cell) = "goal") =>
        /\ raised = None
        /\ done
        /\ FracEq(reward, << 10 * max_steps - 9 * step_count, 10 * max_steps >>)

\* C3: every step call increases step_count by exactly 1, and every step call
\* that leaves step_count >= max_steps returns done = True.
C3_CountAndTimeout ==
    [][ /\ step_count' = step_count + 1
        /\ step_count' >= max_steps => (raised' = None /\ done') ]_vars

\* C4: step returns a non-zero reward only for forward into a goal; every
\* other step returns reward 0, a forward into lava returning done = True.
C4_RewardOnlyAtGoal ==
    action # NoAction =>
        /\ raised = None
        /\ ~FracEq(reward, Zero) =>
              (action = forward /\ fwd_cell # None /\ obj_type(fwd_cell) = "goal")
        /\ (action = forward /\ fwd_cell # None /\ obj_type(fwd_cell) = "lava") =>
              (done /\ FracEq(reward, Zero))

\* C5: with nothing carried and a pickup-able object in the forward cell,
\* step(pickup) empties the forward cell and carries that object; a following
\* step(drop) from the same position and facing empties carrying and makes
\* the grid equal by encoding to the grid before the pickup, which is the
\* grid after the pickup with the object back in the forward cell.
C5_PickupDrop ==
    [][ LET fp == front_pos(agent_pos, agent_dir)
            ix == fp[2] * width + fp[1]
        IN  /\ ( /\ action' = pickup
                 /\ carrying = None
                 /\ InBounds(fp[1], fp[2])
                 /\ get(grid, fp[1], fp[2]) # None
                 /\ can_pickup(get(grid, fp[1], fp[2])) )
               => ( /\ get(grid', fp[1], fp[2]) = None
                    /\ carrying' = get(grid, fp[1], fp[2]) )
            /\ ( /\ action = pickup
                 /\ carrying # None
                 /\ action' = drop
                 /\ InBounds(fp[1], fp[2]) )
               => ( /\ carrying' = None
                    /\ GridEq(grid', [grid EXCEPT ![ix] = carrying]) ) ]_vars

\* C6: the cell at the agent's position is empty or holds an object that can
\* be overlapped, in every state reachable from reset by step calls.
C6_AgentCellOverlappable ==
    LET c == get(grid, agent_pos[1], agent_pos[2])
    IN  c = None \/ can_overlap(c)

\* the agent has moved forward onto the goal
C6_Witness ==
    /\ action = forward
    /\ agent_pos = fwd_pos
    /\ get(grid, agent_pos[1], agent_pos[2]) = "goal"

C8_Turn ==
    /\ agent_dir \in 0 .. 3
    /\ [][ /\ agent_dir' \in 0 .. 3
           /\ action' = left => agent_dir' = (agent_dir - 1) % 4
           /\ action' = right => agent_dir' = (agent_dir + 1) % 4
           /\ action' \in {left, right} =>
                 (agent_pos' = agent_pos /\ carrying' = carrying /\ grid' = grid) ]_vars

\* C9: a step call that fails because the action is outside the action set or
\* because the forward cell is outside the grid leaves step_count, position,
\* facing, carrying and the grid as they were.
C9_FailedStepAtomic ==
    [][ LET fp == front_pos(agent_pos, agent_dir)
        IN  (action' \notin 0 .. 8 \/ ~InBounds(fp[1], fp[2])) =>
               UNCHANGED << step_count, agent_pos, agent_dir, carrying, grid >> ]_vars

\* C10: place_obj with max_tries = N samples at most N positions, and fails
\* with the exhaustion error, the grid unwritten, once N samples were
\* rejected: there is no (N+1)-th attempt.
C10_AtMostMaxTries ==
    /\ place.num_tries <= place.max_tries
    /\ place.pc = "RecursionError" => place.num_tries = place.max_tries

\* C12: after set(i, j, v) with (i, j) in bounds, get(i, j) returns v and get
\* returns its previous value for every other in-bounds cell.
C12_SetThenGet ==
    (gcall.op = "set" /\ Grid_get_raises(gcall.G, gcall.i, gcall.j) = None) =>
        /\ gcall.raised = None
        /\ Grid_get(gcall.out, gcall.i, gcall.j) = gcall.v
        /\ \A p \in CellsOf(gcall.G) :
              p # << gcall.i, gcall.j >> =>
                 Grid_get(gcall.out, p[1], p[2]) = Grid_get(gcall.G, p[1], p[2])

\* C13: rotate_left returns a grid of width H and height W, and four
\* rotate_left in a row give a grid of the original width and height that is
\* equal to the original by mask-less encoding.
C13_RotateFourTimes ==
    gcall.op = "rotate_left" =>
        /\ gcall.n = 1 =>
              (gcall.out.width = gcall.G.height /\ gcall.out.height = gcall.G.width)
        /\ gcall.n = 4 =>
              /\ gcall.out.width = gcall.G.width
              /\ gcall.out.height = gcall.G.height
              /\ Grid_eq(gcall.out, gcall.G)

\* C11: slice(topX, topY, w, h) returns a grid of w by h cells whose cell
\* (i, j) holds what the source holds at (topX + i, topY + j) when that is
\* inside the source, and a wall (never an empty cell) when it is outside.
C11_SliceWallPadded ==
    gcall.op = "slice" =>
        /\ gcall.raised = None
        /\ gcall.out.width = gcall.w
        /\ gcall.out.height = gcall.h
        /\ \A p \in CellsOf(gcall.out) :
              LET x == gcall.i + p[1]
                  y == gcall.j + p[2]
              IN  Grid_get(gcall.out, p[1], p[2]) =
                     IF Grid_get_raises(gcall.G, x, y) = None
                     THEN Grid_get(gcall.G, x, y)
                     ELSE "wall"

\* the grid G with every cell outside M cleared to empty
Cleared(G, M) ==
    [ G EXCEPT !.grid = [ c \in DOMAIN G.grid |->
                            IF << c % G.width, c \div G.width >> \in M
                            THEN G.grid[c] ELSE None ] ]

\* C14: decode(encode(G, M)) returns a grid equal by encoding to G with
\* every cell where M is False cleared to empty, and a mask equal to M.
C14_DecodeEncode ==
    gcall.op = "decode" =>
        /\ Grid_eq(gcall.out, Cleared(gcall.G, gcall.M))
        /\ gcall.mask = gcall.M

\* no cell of G holds an opaque object
NoOpaque(G) == \A p \in CellsOf(G) : ~opaque(G, p[1], p[2])

\* C15: for a view grid with no opaque object and the origin at the
\* bottom-centre cell, the mask process_vis returns is True for every cell
\* and no cell of the grid is cleared; the origin is True in the mask for
\* every grid content.
C15_AllVisibleWithoutOpaque ==
    gcall.op = "process_vis" =>
        /\ << gcall.i, gcall.j >> \in gcall.mask
        /\ NoOpaque(gcall.G) =>
              /\ gcall.mask = CellsOf(gcall.G)
              /\ gcall.out = gcall.G

\* process_vis has run on a grid that holds objects, none of them opaque
C15_Witness ==
    /\ gcall.op = "process_vis"
    /\ << gcall.i, gcall.j >> = origin(gcall.G)
    /\ NoOpaque(gcall.G)
    /\ Cardinality({ c \in DOMAIN gcall.G.grid : gcall.G.grid[c] = "key" }) >= 2
    /\ gcall.mask = CellsOf(gcall.G)

\* the cells a True cell (a, b) can have got its bit from
Sources(a, b) ==
    { << a - 1, b >>, << a + 1, b >>,
      << a - 1, b + 1 >>, << a, b + 1 >>, << a + 1, b + 1 >> }

\* C16: every True cell of the mask other than the origin has a True cell
\* that is empty or see-through among its same-row neighbours and the three
\* cells of the nearer row; after the call every False cell is empty in the
\* grid and every True cell keeps its occupant.
C16_NoViewPastOpaque ==
    gcall.op = "process_vis" =>
        /\ \A p \in gcall.mask :
              p # << gcall.i, gcall.j >> =>
                 \E q \in Sources(p[1], p[2]) \cap gcall.mask :
                    ~opaque(gcall.G, q[1], q[2])
        /\ \A p \in CellsOf(gcall.G) :
              Grid_get(gcall.out, p[1], p[2]) =
                 IF p \in gcall.mask THEN Grid_get(gcall.G, p[1], p[2]) ELSE None

\* the cells of a view grid
ViewCells == (0 .. (agent_view_size - 1)) \X (0 .. (agent_view_size - 1))

\* C17: for each facing and agent position the view grid gen_obs_grid builds
\* agrees with get_view_coords: every world cell inside the view rectangle
\* appears at its view coordinate, and the agent's own cell lands at the
\* bottom-centre cell (agent_view_size // 2, agent_view_size - 1).
C17_ViewAgreesWithCoords ==
    gcall.op = "gen_obs_grid" =>
        LET a == << gcall.i, gcall.j >>
        IN  /\ gcall.raised = None
            /\ gcall.out.width = agent_view_size
            /\ gcall.out.height = agent_view_size
            /\ \A p \in CellsOf(gcall.G) :
                  LET v == get_view_coords(a, gcall.d, p[1], p[2])
                  IN  v \in ViewCells =>
                         Grid_get(gcall.out, v[1], v[2]) = Grid_get(gcall.G, p[1], p[2])
            /\ get_view_coords(a, gcall.d, a[1], a[2]) =
                  << agent_view_size \div 2, agent_view_size - 1 >>
====
